---- MODULE Spec2Model ----
(***************************************************************************)
(* A state-machine model of the combo-box widget of src/src/ComboBox.tsx:  *)
(* the root controller ComboBox (its two state cells, the option registry  *)
(* and the handlers it publishes through the context), the input, the list *)
(* container and the option rows.                                          *)
(*                                                                         *)
(* One action is one browser event (key press, change, focus move, click), *)
(* one animation frame, one flush of the option rows' append effects, one  *)
(* re-render caused from outside the widget, or the unmount.  A handler    *)
(* that changes a state cell re-renders the widget within the same event:  *)
(* the list container's layout effect then empties the registry, and each  *)
(* rendered option row has an append effect to run.                        *)
(***************************************************************************)
EXTENDS Integers, Sequences, FiniteSets

(***************************************************************************)
(* Bounds of the model.                                                    *)
(***************************************************************************)
\* option rows rendered at once, in the specification of the whole widget
MaxOpts == 2
\* option rows rendered at once, in the specification of keyboard navigation
MaxRows == 3
\* entries the registry may accumulate when rows re-register without a reset
MaxReg == 3
\* blur checks queued for one animation frame
MaxRaf == 2
\* consecutive arrow presses that are counted
MaxRun == 5

(***************************************************************************)
(* Values.  `selected` is string | null in the source; a lookup past the   *)
(* ends of the registry array yields undefined.  The empty string is a     *)
(* legal option value (value: string).                                     *)
(***************************************************************************)
Null == "<null>"
Undefined == "<undefined>"
Alphabet == <<"a", "b", "c", "d">>
OptionValues == {"a", "b", "c", ""}
\* onSelect is an optional prop; the specifications below always pass one
Callbacks == {"f", "g"}
NoCallback == "<no callback>"
Keys == {"ArrowUp", "ArrowDown", "Escape", "Enter", "x"}
FocusTargets == {"input", "list", "option", "outside"}
Components == {"ComboBoxInput", "ComboBoxList", "ComboBoxOption"}
NoContext == "<null context>"
Context == "context"
MissingContextError == "ComboBoxInput must be wrapped in a ComboBox component"

RECURSIVE SeqsUpTo(_, _)
SeqsUpTo(S, n) ==
  IF n = 0 THEN {<<>>}
  ELSE LET shorter == SeqsUpTo(S, n - 1)
       IN  shorter \cup {Append(s, x) : s \in {t \in shorter : Len(t) = n - 1}, x \in S}

Range(s) == {s[i] : i \in 1..Len(s)}

Rank(v) == CHOOSE k \in 1..Len(Alphabet) : Alphabet[k] = v

\* The code only compares option values with each other and tests them for
\* emptiness, so lists of rows are taken up to a renaming of the non-empty
\* values: the non-empty values of a list first occur in alphabetical order.
Canonical(s) ==
  \A i \in 1..Len(s) :
    s[i] # "" =>
      Rank(s[i]) <= Cardinality({s[j] : j \in 1..(i - 1)} \ {""}) + 1

\* the rows a render may produce in the specification of the whole widget:
\* distinct non-empty values
Children == {SubSeq(Alphabet, 1, k) : k \in 0..MaxOpts}

\* the rows a render may produce in the specification of keyboard navigation:
\* every list, with repeated and with empty values
Registries == {s \in SeqsUpTo(OptionValues, MaxRows) : Canonical(s)}

VARIABLES
  mounted,        \* the widget instance is mounted
  selected,       \* useState cell `selected`
  showPopover,    \* useState cell `showPopover`
  options,        \* options.current, the option registry
  rendered,       \* the values of the option rows of the last render, in order
  pending,        \* append effects of option rows that have not run yet
  focus,          \* where document.activeElement is
  rafQueue,       \* blur checks queued with requestAnimationFrame
  onSelectProp,   \* the onSelect prop of the last render of ComboBox
  itemSelectCb,   \* the onSelect that the memoised onItemSelect closes over
  handleSelectCb, \* the onSelect that the memoised handleSelect closes over
  last,           \* what the last step did (history)
  run             \* arrow presses in a row over one registry (history)

vars == <<mounted, selected, showPopover, options, rendered, pending, focus,
          rafQueue, onSelectProp, itemSelectCb, handleSelectCb, last, run>>

(***************************************************************************)
(* JavaScript helpers.                                                     *)
(***************************************************************************)
\* !v for v : string | null | undefined
Falsy(v) == v \in {Null, Undefined, ""}

\* Array.prototype.indexOf: first index (from 0) holding v, or -1
IndexOf(arr, v) ==
  IF \E i \in 1..Len(arr) : arr[i] = v
  THEN (CHOOSE i \in 1..Len(arr) : arr[i] = v /\ \A j \in 1..(i - 1) : arr[j] # v) - 1
  ELSE -1

\* arr[i] with i counted from 0: undefined outside the array
At(arr, i) == IF i >= 0 /\ i < Len(arr) THEN arr[i + 1] ELSE Undefined


(***************************************************************************)
(* The root controller's handlers, as functions of what their closures     *)
(* read.  Every state-reading closure is re-created when the cell it reads *)
(* changes (its useCallback dependency list names the cell), so it reads   *)
(* the current cell; onSelect is in no dependency list.                    *)
(***************************************************************************)
getSelectedIndex(opts, sel) ==
  IF Falsy(sel) THEN -1 ELSE IndexOf(opts, IF Falsy(sel) THEN "" ELSE sel)

\* variant: over an empty registry the selection is left as it is
onArrowDownKeeps(opts, sel) ==
  LET i == getSelectedIndex(opts, sel)
  IN  IF Len(opts) = 0 THEN sel
      ELSE IF i + 1 = Len(opts) THEN At(opts, 0) ELSE At(opts, i + 1)

\* variant: the step past the last element does not go back to the first
onArrowDownNoWrap(opts, sel) ==
  LET i == getSelectedIndex(opts, sel)
  IN  At(opts, i + 1)

\* the value handed to setSelected
onArrowDown(opts, sel) ==
  LET i == getSelectedIndex(opts, sel)
  IN  IF i + 1 = Len(opts) THEN At(opts, 0) ELSE At(opts, i + 1)

\* variant: the step before the first element goes round to the last
onArrowUpWraps(opts, sel) ==
  LET i == getSelectedIndex(opts, sel)
  IN  IF i <= 0 THEN At(opts, Len(opts) - 1) ELSE At(opts, i - 1)

\* variant: a selection that is not found in the registry is kept
onArrowUpKeeps(opts, sel) ==
  LET i == getSelectedIndex(opts, sel)
  IN  IF i = -1 THEN (IF Falsy(sel) THEN At(opts, Len(opts) - 1) ELSE sel)
      ELSE At(opts, i - 1)

\* variant: with nothing selected the first element is taken, not the last
onArrowUpFromFirst(opts, sel) ==
  LET i == getSelectedIndex(opts, sel)
  IN  IF i = -1 THEN At(opts, 0) ELSE At(opts, i - 1)

\* the value handed to setSelected
onArrowUp(opts, sel) ==
  LET i == getSelectedIndex(opts, sel)
  IN  IF i = -1 THEN At(opts, Len(opts) - 1) ELSE At(opts, i - 1)

\* `onSelect && onSelect(arg)` for the onSelect a closure holds
Invoke(cb, arg) == IF cb = NoCallback THEN <<>> ELSE <<[cb |-> cb, arg |-> arg]>>

\* variant: the closure reads the `selected` of the first render (null)
onItemSelectStale(sel, cb) ==
  [show |-> FALSE, calls |-> Invoke(cb, Null), sel |-> Null]

onItemSelect(sel, cb) ==
  [show |-> FALSE, calls |-> Invoke(cb, sel), sel |-> Null]

\* variant: setShowPopover(true) in place of setShowPopover(false)
onEscapeShows == [show |-> TRUE, sel |-> Null]

onEscape == [show |-> FALSE, sel |-> Null]

\* variant: e.preventDefault() runs for every key
onKeyDownSwallows(key, opts, sel, show, cb) ==
  CASE key = "ArrowUp" ->
         [sel |-> onArrowUp(opts, sel), show |-> show, calls |-> <<>>,
          log |-> <<"onArrowUp">>, prevented |-> TRUE]
    [] key = "ArrowDown" ->
         [sel |-> onArrowDown(opts, sel), show |-> show, calls |-> <<>>,
          log |-> <<"onArrowDown">>, prevented |-> TRUE]
    [] key = "Escape" ->
         [sel |-> onEscape.sel, show |-> onEscape.show, calls |-> <<>>,
          log |-> <<"onEscape">>, prevented |-> TRUE]
    [] key = "Enter" ->
         [sel |-> onItemSelect(sel, cb).sel, show |-> onItemSelect(sel, cb).show,
          calls |-> onItemSelect(sel, cb).calls,
          log |-> <<"onItemSelect">>, prevented |-> TRUE]
    [] OTHER ->
         [sel |-> sel, show |-> show, calls |-> <<>>, log |-> <<>>,
          prevented |-> TRUE]

\* the switch on e.key: the cells after the handler, the onSelect calls made,
\* the handlers entered and whether e.preventDefault() ran
onKeyDown(key, opts, sel, show, cb) ==
  CASE key = "ArrowUp" ->
         [sel |-> onArrowUp(opts, sel), show |-> show, calls |-> <<>>,
          log |-> <<"onArrowUp">>, prevented |-> TRUE]
    [] key = "ArrowDown" ->
         [sel |-> onArrowDown(opts, sel), show |-> show, calls |-> <<>>,
          log |-> <<"onArrowDown">>, prevented |-> TRUE]
    [] key = "Escape" ->
         [sel |-> onEscape.sel, show |-> onEscape.show, calls |-> <<>>,
          log |-> <<"onEscape">>, prevented |-> TRUE]
    [] key = "Enter" ->
         [sel |-> onItemSelect(sel, cb).sel, show |-> onItemSelect(sel, cb).show,
          calls |-> onItemSelect(sel, cb).calls,
          log |-> <<"onItemSelect">>, prevented |-> TRUE]
    [] OTHER ->
         [sel |-> sel, show |-> show, calls |-> <<>>, log |-> <<>>,
          prevented |-> FALSE]

\* variant: the popover is toggled, not opened
onInputChangeToggles(show) ==
  [sel |-> Null, show |-> ~show]

onInputChange(show) ==
  [sel |-> Null, show |-> IF ~show THEN TRUE ELSE show]

\* ComboBoxInput's change handler: the caller's onChange, then the controller's
handleChange(hasOnChange, show) ==
  [sel |-> onInputChange(show).sel, show |-> onInputChange(show).show,
   log |-> (IF hasOnChange THEN <<"onChange">> ELSE <<>>) \o <<"onInputChange">>]

\* handleBlur only queues the check for the next animation frame
handleBlur(queue) == queue + 1

\* variant: the check hides the popover and leaves the selection
blurCheckKeepsSelection(focused, sel, show) ==
  IF focused \in {"input", "list", "option"}
    THEN [sel |-> sel, show |-> show, set |-> FALSE]
  ELSE [sel |-> sel, show |-> FALSE, set |-> TRUE]

\* variant: the check does not look inside the list
blurCheckNoContains(focused, sel, show) ==
  IF focused = "input" \/ focused = "list"
    THEN [sel |-> sel, show |-> show, set |-> FALSE]
  ELSE [sel |-> Null, show |-> FALSE, set |-> TRUE]

\* the queued check: the cells it leaves and whether it got to its setState
\* calls.  inputRef.current and listRef.current are the mounted elements;
\* list.contains() holds for the list and for what is inside it
blurCheck(focused, sel, show) ==
  IF focused = "input" \/ focused = "list"
    THEN [sel |-> sel, show |-> show, set |-> FALSE]
  ELSE IF focused \in {"list", "option"}
    THEN [sel |-> sel, show |-> show, set |-> FALSE]
  ELSE [sel |-> Null, show |-> FALSE, set |-> TRUE]

\* variant: the popover is toggled, not opened
handleFocusToggles(show) == ~show

handleFocus(show) == TRUE

\* variant: onSelect gets the `selected` of the first render (null), not the
\* clicked row's value
handleSelectStale(value, cb) ==
  [calls |-> Invoke(cb, Null), show |-> FALSE, sel |-> Null]

handleSelect(value, cb) ==
  [calls |-> Invoke(cb, value), show |-> FALSE, sel |-> Null]

(***************************************************************************)
(* Rendering a child component: the context check comes first.             *)
(***************************************************************************)
NoError == ""

HandlersOf(comp) ==
  CASE comp = "ComboBoxInput" -> {"onKeyDown", "onChange", "onBlur", "onFocus"}
    [] comp = "ComboBoxList" -> {"onBlur"}
    [] comp = "ComboBoxOption" -> {"onClick"}

\* variant: no context check
RenderChildUnchecked(comp, context) ==
  [thrown |-> NoError, wired |-> HandlersOf(comp)]

RenderChild(comp, context) ==
  IF context = NoContext
  THEN [thrown |-> MissingContextError, wired |-> {}]
  ELSE [thrown |-> NoError, wired |-> HandlersOf(comp)]

\* the components of the widget's tree when `children` are its option rows
Tree(children) ==
  {"ComboBoxInput", "ComboBoxList"}
    \cup (IF children = <<>> THEN {} ELSE {"ComboBoxOption"})

Thrown(comps, context) == {RenderChild(c, context).thrown : c \in comps} \ {NoError}

Wired(comps, context) == UNION {RenderChild(c, context).wired : c \in comps}


(***************************************************************************)
(* History records.                                                        *)
(***************************************************************************)
\* the events whose record keeps the registry they found: the properties
\* compare it with the registry they leave
RegistryEvents == {"keydown", "focus", "stray render"}

\* what a step did: the event, its input, the cells and (for RegistryEvents)
\* the registry it found (for a focus also the rows whose append effect was
\* waiting), the onSelect calls it made, the handlers it entered,
\* whether the browser default was suppressed, and what rendering in the step
\* threw and wired
Did(op, arg, calls, log, prevented, comps, context) ==
  [op |-> op, arg |-> arg,
   sel |-> selected, show |-> showPopover,
   opts |-> IF op \in RegistryEvents THEN options ELSE <<>>,
   pend |-> IF op = "focus" THEN pending ELSE <<>>,
   calls |-> calls, log |-> log, prevented |-> prevented,
   thrown |-> Thrown(comps, context), wired |-> Wired(comps, context)]

NoRun == [kind |-> "none", n |-> 0, reg |-> <<>>]

NoSelection(sel) == sel \in {Null, Undefined}

\* the run of arrow presses after `key` is pressed: presses count as one run
\* while each of them finds the registry the first one found and nothing but
\* the rows' waiting effects happens between them
RunAfterKey(key) ==
  LET start == NoSelection(selected) /\ options # <<>>
      goesOn == run.reg = options /\ run.n < MaxRun
  IN  CASE key = "ArrowDown" ->
             IF run.kind = "down" /\ goesOn
               THEN [run EXCEPT !.n = run.n + 1]
             ELSE IF run.kind = "up" /\ run.n = 1 /\ goesOn
               THEN [run EXCEPT !.kind = "updown", !.n = 2]
             ELSE IF start
               THEN [kind |-> "down", n |-> 1, reg |-> options]
             ELSE NoRun
        [] key = "ArrowUp" ->
             IF run.kind = "up" /\ goesOn
               THEN [run EXCEPT !.n = run.n + 1]
             ELSE IF start
               THEN [kind |-> "up", n |-> 1, reg |-> options]
             ELSE NoRun
        [] OTHER -> NoRun

(***************************************************************************)
(* Rendering.  A commit of the widget's tree runs the list container's     *)
(* layout effect (cleanup and body both empty the registry) and leaves one *)
(* append effect per rendered option row; the append effects run either    *)
(* before the event returns or later (FlushEffects).  Effects still        *)
(* waiting from the commit before are run first, and are wiped by the      *)
(* reset.                                                                  *)
(***************************************************************************)
ListLayoutEffect(registry) == <<>>

RECURSIVE OptionEffects(_, _)
OptionEffects(registry, rows) ==
  IF rows = <<>> THEN registry
  ELSE OptionEffects(Append(registry, Head(rows)), Tail(rows))

Commit(children) ==
  \/ /\ options' = ListLayoutEffect(OptionEffects(options, pending))
     /\ pending' = children
  \/ /\ options' = OptionEffects(ListLayoutEffect(OptionEffects(options, pending)), children)
     /\ pending' = <<>>

\* a setState call that changes no cell renders nothing, but the call itself
\* first runs the rows' append effects that were still waiting
Bailout ==
  /\ options' = OptionEffects(options, pending)
  /\ pending' = <<>>

\* the two setState calls of a handler, batched: a changed cell re-renders
\* ComboBox, and onItemSelect is re-created when `selected` changed
SetState(sel, show) ==
  /\ selected' = sel
  /\ showPopover' = show
  /\ itemSelectCb' = IF sel # selected THEN onSelectProp ELSE itemSelectCb
  /\ IF sel # selected \/ show # showPopover
       THEN Commit(rendered)
       ELSE Bailout

\* a handler that calls no setter
NoSetState ==
  UNCHANGED <<selected, showPopover, itemSelectCb, options, pending>>

Rerendered(sel, show) ==
  IF sel # selected \/ show # showPopover THEN Tree(rendered) ELSE {}

(***************************************************************************)
(* The state after ComboBox and its children mounted: the first commit ran *)
(* the list container's layout effect and then the option rows' effects.   *)
(***************************************************************************)
Mounted(cb, children) ==
  /\ mounted = TRUE
  /\ selected = Null
  /\ showPopover = FALSE
  /\ options = OptionEffects(ListLayoutEffect(<<>>), children)
  /\ rendered = children
  /\ pending = <<>>
  /\ focus = "outside"
  /\ rafQueue = 0
  /\ onSelectProp = cb
  /\ itemSelectCb = cb
  /\ handleSelectCb = cb
  /\ last = Did("mount", "", <<>>, <<>>, FALSE, Tree(children), Context)
  /\ run = NoRun

Init == \E children \in Children : Mounted("f", children)

(***************************************************************************)
(* Events.                                                                 *)
(***************************************************************************)
\* a key goes down in the input
KeyDown(key) ==
  /\ mounted /\ focus = "input"
  /\ LET r == onKeyDown(key, options, selected, showPopover, itemSelectCb)
     IN  /\ IF r.log = <<>> THEN NoSetState ELSE SetState(r.sel, r.show)
         /\ last' = Did("keydown", key, r.calls, r.log, r.prevented,
                        Rerendered(r.sel, r.show), Context)
  /\ run' = RunAfterKey(key)
  /\ UNCHANGED <<mounted, rendered, focus, rafQueue, onSelectProp, handleSelectCb>>

\* the input's text changes
InputChange(hasOnChange) ==
  /\ mounted /\ focus = "input"
  /\ LET r == handleChange(hasOnChange, showPopover)
     IN  /\ SetState(r.sel, r.show)
         /\ last' = Did("change", IF hasOnChange THEN "onChange" ELSE "", <<>>, r.log, FALSE,
                        Rerendered(r.sel, r.show), Context)
  /\ run' = NoRun
  /\ UNCHANGED <<mounted, rendered, focus, rafQueue, onSelectProp, handleSelectCb>>

\* focus moves, to another element: the element that loses it, if it is the
\* input, the list or inside the list, gets a blur (the list's onBlur sees the
\* blurs of its rows, also when the focus goes from one row to another), and
\* the input, if it gains it, gets a focus
MoveFocus(target) ==
  /\ mounted
  /\ target # focus \/ (target = "option" /\ Len(rendered) >= 2)
  /\ target = "option" => rendered # <<>>
  /\ IF focus \in {"input", "list", "option"}
       THEN rafQueue < MaxRaf /\ rafQueue' = handleBlur(rafQueue)
       ELSE rafQueue' = rafQueue
  /\ focus' = target
  /\ IF target = "input"
       THEN /\ SetState(selected, handleFocus(showPopover))
            /\ last' = Did("focus", target, <<>>, <<"handleFocus">>, FALSE,
                           Rerendered(selected, handleFocus(showPopover)), Context)
       ELSE /\ UNCHANGED <<selected, showPopover, itemSelectCb, options, pending>>
            /\ last' = Did("focus", target, <<>>, <<>>, FALSE, {}, Context)
  /\ UNCHANGED <<mounted, rendered, onSelectProp, handleSelectCb>>
  /\ run' = NoRun

\* the browser's window is deactivated: the focused element gets a blur and
\* stays document.activeElement
WindowBlur ==
  /\ mounted /\ focus \in {"input", "list", "option"}
  /\ rafQueue < MaxRaf /\ rafQueue' = handleBlur(rafQueue)
  /\ last' = Did("blur", focus, <<>>, <<"handleBlur">>, FALSE, {}, Context)
  /\ UNCHANGED <<mounted, selected, showPopover, options, rendered, pending,
                 focus, onSelectProp, itemSelectCb, handleSelectCb>>
  /\ run' = NoRun

\* the window is activated again: the input, if it is document.activeElement,
\* gets a focus
WindowFocus ==
  /\ mounted /\ focus = "input"
  /\ SetState(selected, handleFocus(showPopover))
  /\ last' = Did("focus", "input", <<>>, <<"handleFocus">>, FALSE,
                 Rerendered(selected, handleFocus(showPopover)), Context)
  /\ UNCHANGED <<mounted, rendered, focus, rafQueue, onSelectProp,
                 handleSelectCb>>
  /\ run' = NoRun

\* an option row is clicked
Click(value) ==
  /\ mounted /\ value \in Range(rendered)
  /\ LET r == handleSelect(value, handleSelectCb)
     IN  /\ SetState(r.sel, r.show)
         /\ last' = Did("click", value, r.calls, <<"handleSelect">>, FALSE,
                        Rerendered(r.sel, r.show), Context)
  /\ run' = NoRun
  /\ UNCHANGED <<mounted, rendered, focus, rafQueue, onSelectProp, handleSelectCb>>

\* what one queued check enters: the callback itself and, past the early
\* returns, the two setState calls
blurCheckLog(set) ==
  IF set THEN <<"blurCheck", "setShowPopover", "setSelected">>
  ELSE <<"blurCheck">>

\* the animation frame: every queued blur check runs, one after the other
\* (handleBlur keeps no handle to cancel the request); after the unmount the
\* setState calls change nothing
RECURSIVE BlurChecks(_, _, _, _)
BlurChecks(n, focused, sel, show) ==
  IF n = 0 THEN [sel |-> sel, show |-> show, set |-> FALSE]
  ELSE LET r == blurCheck(focused, sel, show)
           rest == BlurChecks(n - 1, focused, r.sel, r.show)
       IN  [sel |-> rest.sel, show |-> rest.show, set |-> r.set \/ rest.set]

RunFrame ==
  /\ rafQueue > 0
  /\ rafQueue' = 0
  /\ LET r == BlurChecks(rafQueue, focus, selected, showPopover)
     IN  IF mounted
           THEN /\ IF r.set THEN SetState(r.sel, r.show) ELSE NoSetState
                /\ last' = Did("frame", focus, <<>>, blurCheckLog(r.set), FALSE,
                               Rerendered(r.sel, r.show), Context)
           ELSE /\ UNCHANGED <<selected, showPopover, itemSelectCb, options,
                               pending>>
                /\ last' = Did("frame", focus, <<>>, blurCheckLog(r.set), FALSE,
                               {}, Context)
  /\ run' = NoRun
  /\ UNCHANGED <<mounted, rendered, focus, onSelectProp, handleSelectCb>>

\* the waiting append effects of the option rows run
FlushEffects ==
  /\ mounted /\ pending # <<>>
  /\ options' = OptionEffects(options, pending)
  /\ pending' = <<>>
  /\ last' = Did("effects", "", <<>>, <<>>, FALSE, {}, Context)
  /\ UNCHANGED <<mounted, selected, showPopover, rendered, focus, rafQueue,
                 onSelectProp, itemSelectCb, handleSelectCb, run>>

\* a focused option row that is no longer rendered loses the focus
FocusAfter(children) ==
  IF focus = "option"
    THEN (IF children # <<>> THEN {"option"} ELSE {})
           \cup (IF children # rendered THEN {"outside"} ELSE {})
    ELSE {focus}

\* the owner re-renders ComboBox, with an onSelect prop and option rows of its
\* choice
ParentRerender(cb, children) ==
  /\ mounted
  /\ onSelectProp' = cb
  /\ rendered' = children
  /\ Commit(children)
  /\ focus' \in FocusAfter(children)
  /\ last' = Did("render", "", <<>>, <<>>, FALSE, Tree(children), Context)
  /\ UNCHANGED <<mounted, selected, showPopover, rafQueue, itemSelectCb,
                 handleSelectCb>>
  /\ run' = NoRun

\* the rows that may render in one pass: some of the rendered rows, in order
RECURSIVE SomeOf(_)
SomeOf(rows) ==
  IF rows = <<>> THEN {<<>>}
  ELSE LET rest == SomeOf(Tail(rows))
       IN  rest \cup {<<Head(rows)>> \o r : r \in rest}

\* the sets of rows a component between the list container and the rows may
\* render: any of the first MaxOpts values, in order
RowSets == SomeOf(SubSeq(Alphabet, 1, MaxOpts))

\* a component between the list container and option rows re-renders some or
\* all of the rows while the list container does not re-render
OptionsRerender(rows) ==
  /\ mounted /\ rows # <<>> /\ rows \in SomeOf(rendered)
  /\ Len(options) + Len(pending) + Len(rows) <= MaxReg
  /\ \/ /\ options' = OptionEffects(options, pending)
        /\ pending' = rows
     \/ /\ options' = OptionEffects(OptionEffects(options, pending), rows)
        /\ pending' = <<>>
  /\ last' = Did("rows", "", <<>>, <<>>, FALSE, {"ComboBoxOption"}, Context)
  /\ UNCHANGED <<mounted, selected, showPopover, rendered, focus, rafQueue,
                 onSelectProp, itemSelectCb, handleSelectCb>>
  /\ run' = NoRun

\* a component between the list container and the option rows renders another
\* set of rows, `children`, while the list container does not re-render: the
\* rows that enter and those of the staying rows that render (`rows`) register,
\* and what the rows of before registered stays
RowsChange(children, rows) ==
  /\ mounted /\ children # rendered
  /\ rows \in SomeOf(children)
  /\ \A i \in 1..Len(children) :
       children[i] \notin Range(rendered) => children[i] \in Range(rows)
  /\ Len(options) + Len(pending) + Len(rows) <= MaxReg
  /\ rendered' = children
  /\ \/ /\ options' = OptionEffects(options, pending)
        /\ pending' = rows
     \/ /\ options' = OptionEffects(OptionEffects(options, pending), rows)
        /\ pending' = <<>>
  /\ focus' \in FocusAfter(children)
  /\ last' = Did("rows", "change", <<>>, <<>>, FALSE, {"ComboBoxOption"}, Context)
  /\ UNCHANGED <<mounted, selected, showPopover, rafQueue, onSelectProp,
                 itemSelectCb, handleSelectCb>>
  /\ run' = NoRun

\* a component around the list container re-renders it with the same row
\* elements: the list container renders and its layout effect runs (after the
\* append effects still waiting), the rows do not render
ListRerender ==
  /\ mounted
  /\ options' = ListLayoutEffect(OptionEffects(options, pending))
  /\ pending' = <<>>
  /\ last' = Did("list", "", <<>>, <<>>, FALSE, {"ComboBoxList"}, Context)
  /\ UNCHANGED <<mounted, selected, showPopover, rendered, focus, rafQueue,
                 onSelectProp, itemSelectCb, handleSelectCb>>
  /\ run' = NoRun

\* the widget unmounts: the list container's cleanup empties the registry, the
\* refs are cleared, the focused element (if it was the widget's) is gone
Unmount ==
  /\ mounted
  /\ mounted' = FALSE
  /\ options' = ListLayoutEffect(options)
  /\ pending' = <<>>
  /\ rendered' = <<>>
  /\ focus' = "outside"
  /\ last' = Did("unmount", "", <<>>, <<>>, FALSE, {}, Context)
  /\ run' = NoRun
  /\ UNCHANGED <<selected, showPopover, rafQueue, onSelectProp, itemSelectCb,
                 handleSelectCb>>

\* one of the child components is rendered where no ComboBox provides the
\* context: the render throws before the component wires or registers anything
RenderOutside(comp) ==
  /\ last' = Did("stray render", comp, <<>>, <<>>, FALSE, {comp}, NoContext)
  /\ UNCHANGED <<mounted, selected, showPopover, options, rendered, pending,
                 focus, rafQueue, onSelectProp, itemSelectCb, handleSelectCb>>
  /\ run' = NoRun

(***************************************************************************)
(* The whole widget: every event and render pass, the rows being the first *)
(* k of the values, one onSelect callback.                                 *)
(***************************************************************************)
Next ==
  \/ \E key \in Keys : KeyDown(key)
  \/ \E hasOnChange \in BOOLEAN : InputChange(hasOnChange)
  \/ \E target \in FocusTargets : MoveFocus(target)
  \/ \E value \in OptionValues : Click(value)
  \/ RunFrame
  \/ FlushEffects
  \/ \E children \in Children : ParentRerender(onSelectProp, children)
  \/ \E rows \in SomeOf(rendered) : OptionsRerender(rows)
  \/ \E children \in Children : \E rows \in SomeOf(children) :
       RowsChange(children, rows)
  \/ ListRerender
  \/ WindowBlur
  \/ WindowFocus
  \/ Unmount
  \/ \E comp \in Components : RenderOutside(comp)

Spec == Init /\ [][Next]_vars

(***************************************************************************)
(* Keyboard navigation: the input keeps the focus, the rows are any list,  *)
(* the same in every render.                                               *)
(***************************************************************************)
KeysInit == \E children \in Registries : Mounted("f", children)

KeysNext ==
  \/ MoveFocus("input")
  \/ \E key \in Keys : KeyDown(key)
  \/ FlushEffects
  \/ OptionsRerender(rendered)

KeysSpec == KeysInit /\ [][KeysNext]_vars

(***************************************************************************)
(* Render passes: ComboBox, the list container alone, or any of the rows   *)
(* alone render, and any set of rows takes the place of another, between   *)
(* key presses on the focused input.                                       *)
(***************************************************************************)
RenderInit == \E children \in Children : Mounted("f", children)

RenderNext ==
  \/ MoveFocus("input")
  \/ \E key \in Keys : KeyDown(key)
  \/ FlushEffects
  \/ \E children \in Children : ParentRerender(onSelectProp, children)
  \/ \E rows \in SomeOf(rendered) : OptionsRerender(rows)
  \/ \E children \in RowSets : \E rows \in SomeOf(children) :
       RowsChange(children, rows)
  \/ ListRerender

RenderSpec == RenderInit /\ [][RenderNext]_vars

(***************************************************************************)
(* Focus and blur: every event of the user and every re-render of          *)
(* ComboBox; the browser runs a queued animation-frame callback.           *)
(***************************************************************************)
BlurInit == \E children \in Children : Mounted("f", children)

BlurNext ==
  \/ \E target \in FocusTargets : MoveFocus(target)
  \/ WindowBlur
  \/ WindowFocus
  \/ \E key \in Keys : KeyDown(key)
  \/ \E hasOnChange \in BOOLEAN : InputChange(hasOnChange)
  \/ \E value \in OptionValues : Click(value)
  \/ RunFrame
  \/ FlushEffects
  \/ \E children \in Children : ParentRerender(onSelectProp, children)
  \/ Unmount

BlurSpec == BlurInit /\ [][BlurNext]_vars /\ WF_vars(RunFrame)

(***************************************************************************)
(* Properties.                                                             *)
(***************************************************************************)
Pressed(key) == last.op = "keydown" /\ last.arg = key

Distinct(reg) == \A i, j \in 1..Len(reg) : reg[i] = reg[j] => i = j

\* a non-empty registry of pairwise distinct, non-empty values
Plain(reg) == reg # <<>> /\ Distinct(reg) /\ "" \notin Range(reg)

\* the registry element at index (n-1) mod length, indices counted from 0
Cycled(reg, n) == reg[((n - 1) % Len(reg)) + 1]

\* C1 as stated: over any non-empty registry that every press finds the same,
\* the n-th ArrowDown press in a row, counted from no selection, selects the
\* registry element at index (n-1) mod length.
C1_AnyRegistry ==
  run.kind = "down" => selected = Cycled(run.reg, run.n)

\* C1, amended: over a non-empty registry of pairwise distinct, non-empty
\* values that every press finds the same, the n-th ArrowDown press in a row,
\* counted from no selection, selects the registry element at index
\* (n-1) mod length.
C1_ArrowDownCycles ==
  (run.kind = "down" /\ Plain(run.reg)) => selected = Cycled(run.reg, run.n)

\* three distinct rows, fifth press: the selection wrapped round once
C1_Witness ==
  /\ run.kind = "down" /\ run.n = 5
  /\ run.reg = <<"a", "b", "c">>
  /\ selected = "b"

\* C2: Enter pressed while the selection is a non-empty value v invokes
\* onSelect exactly once, with v, and leaves no selection and the popover
\* hidden.
C2_EnterSelects ==
  (Pressed("Enter") /\ ~Falsy(last.sel)) =>
    /\ Len(last.calls) = 1
    /\ last.calls[1].arg = last.sel
    /\ selected = Null
    /\ ~showPopover

C2_Witness ==
  /\ Pressed("Enter") /\ last.sel = "b" /\ last.show
  /\ last.calls = <<[cb |-> "f", arg |-> "b"]>>
  /\ selected = Null /\ ~showPopover

\* C3: a click on the option row of value v invokes onSelect exactly once, with
\* v, and leaves no selection and the popover hidden, whatever the selection and
\* the popover were.
C3_ClickSelects ==
  last.op = "click" =>
    /\ Len(last.calls) = 1
    /\ last.calls[1].arg = last.arg
    /\ selected = Null
    /\ ~showPopover

\* row "b" clicked while the keyboard selection was "a"
C3_Witness ==
  /\ last.op = "click" /\ last.arg = "b" /\ last.sel = "a"
  /\ last.calls = <<[cb |-> "f", arg |-> "b"]>>
  /\ selected = Null /\ ~showPopover

\* C4: Escape leaves no selection and the popover hidden, and invokes no
\* onSelect.
C4_EscapeCloses ==
  Pressed("Escape") => selected = Null /\ ~showPopover /\ last.calls = <<>>

C4_Witness ==
  /\ Pressed("Escape") /\ last.sel = "a" /\ last.show
  /\ selected = Null /\ ~showPopover

\* C5: a blur check that runs while the focus is outside the input and the list
\* hides the popover and clears the selection without invoking onSelect; and
\* once a check is queued and the focus is outside, the popover gets hidden
\* with no selection, unless the focus comes back or the widget unmounts first.
C5_BlurAwayCloses ==
  /\ [](  (mounted /\ last.op = "frame" /\ last.arg = "outside")
        => (~showPopover /\ selected = Null /\ last.calls = <<>>))
  /\ (mounted /\ rafQueue > 0 /\ focus = "outside")
       ~> (~mounted \/ focus # "outside" \/ (~showPopover /\ selected = Null))

C5_Witness ==
  /\ mounted /\ last.op = "frame" /\ last.arg = "outside"
  /\ last.show /\ last.sel = "a"
  /\ ~showPopover /\ selected = Null

\* C6: a blur check that runs while the focus is on the input, on the list or
\* inside the list changes neither the popover nor the selection; nor does the
\* move of the focus into the list.
C6_BlurInsideIgnored ==
  /\ (last.op = "frame" /\ last.arg \in {"input", "list", "option"})
       => (showPopover = last.show /\ selected = last.sel)
  /\ (last.op = "focus" /\ last.arg \in {"list", "option"})
       => (showPopover = last.show /\ selected = last.sel)

\* the check ran with the focus on an option row: popover and selection stay
C6_Witness ==
  /\ last.op = "frame" /\ last.arg = "option"
  /\ showPopover /\ selected = "a"

\* C7 as stated: a focus event on the input shows the popover and leaves the
\* selection and the registry unchanged.
C7_RegistryUntouched ==
  (last.op = "focus" /\ last.arg = "input") =>
    showPopover /\ selected = last.sel /\ options = last.opts

\* C7, amended: a focus event on the input shows the popover and leaves the
\* selection unchanged; if the popover was visible already the registry is not
\* reset, it keeps its entries and the rows whose append effect was still
\* waiting register (the setter call runs them); otherwise the re-render
\* empties it and the rendered option rows register again.
C7_FocusShows ==
  (last.op = "focus" /\ last.arg = "input") =>
    /\ showPopover
    /\ selected = last.sel
    /\ last.show =>
         options = OptionEffects(last.opts, last.pend) /\ pending = <<>>
    /\ ~last.show => OptionEffects(options, pending) = rendered

\* focus from a hidden popover: the registry that held the rows is emptied
C7_Witness ==
  /\ last.op = "focus" /\ last.arg = "input"
  /\ ~last.show /\ showPopover
  /\ last.opts = <<"a", "b">> /\ options = <<>> /\ pending = <<"a", "b">>

\* C8: an input change leaves the popover visible and no selection, runs the
\* caller's onChange before the controller's handler and invokes no onSelect.
C8_ChangeOpens ==
  last.op = "change" =>
    /\ showPopover
    /\ selected = Null
    /\ last.calls = <<>>
    /\ last.log[Len(last.log)] = "onInputChange"
    /\ last.arg = "onChange" => last.log = <<"onChange", "onInputChange">>

\* typing while the popover is hidden and a row is selected
C8_Witness ==
  /\ last.op = "change" /\ last.arg = "onChange"
  /\ ~last.show /\ last.sel = "a"
  /\ showPopover /\ selected = Null

ArrowUpSteps(reg) ==
  /\ NoSelection(last.sel) => selected = reg[Len(reg)]
  /\ \A i \in 2..Len(reg) : last.sel = reg[i] => selected = reg[i - 1]

\* C9 as stated: over any non-empty registry, ArrowUp with no selection selects
\* the last element and ArrowUp with the selection at index i >= 1 selects the
\* element at index i-1; ArrowUp then ArrowDown, from no selection, selects the
\* first element.
C9_AnyRegistry ==
  /\ (Pressed("ArrowUp") /\ last.opts # <<>>) => ArrowUpSteps(last.opts)
  /\ run.kind = "updown" => selected = run.reg[1]

\* C9, amended: the same over a non-empty registry of pairwise distinct,
\* non-empty values.
C9_ArrowUpSteps ==
  /\ (Pressed("ArrowUp") /\ Plain(last.opts)) => ArrowUpSteps(last.opts)
  /\ (run.kind = "updown" /\ Plain(run.reg)) => selected = run.reg[1]

\* a, b, c: ArrowUp selected c, ArrowDown then selected a
C9_Witness ==
  /\ run.kind = "updown" /\ run.reg = <<"a", "b", "c">>
  /\ last.sel = "c" /\ selected = "a"

\* C10: the input, the list container or an option row rendered without a
\* context throws the "must be wrapped" error, wires no handler and changes
\* nothing of the widget; rendered within the widget none of them throws.
C10_ContextRequired ==
  /\ last.op = "stray render" =>
       /\ last.thrown = {MissingContextError}
       /\ last.wired = {}
       /\ selected = last.sel /\ showPopover = last.show /\ options = last.opts
  /\ last.op \in {"mount", "render"} =>
       /\ last.thrown = {}
       /\ {"onKeyDown", "onChange", "onBlur", "onFocus"} \subseteq last.wired
  /\ last.op # "stray render" => last.thrown = {}

C10_Witness ==
  /\ last.op = "stray render" /\ last.arg = "ComboBoxOption"
  /\ last.thrown = {MissingContextError} /\ last.wired = {}

\* C11 as stated: whenever a render pass is complete (no append effect of an
\* option row is still waiting), the registry is the sequence of the values of
\* the rendered option rows, in rendered order, one entry per row.
C11_RegistryIsRendered ==
  (mounted /\ pending = <<>>) => options = rendered

\* C12 as stated: once the widget has unmounted none of its callbacks fires;
\* no animation frame after the unmount runs a blur check queued before it,
\* and so none runs the check's setShowPopover / setSelected calls.
C12_NoCallbackAfterUnmount ==
  ~mounted => last.op # "frame"

\* C13 as stated: every reachable state is Idle, Open/Unselected or
\* Open/Selected, that is, while the popover is hidden nothing is selected.
C13_ThreeStates ==
  (mounted /\ ~showPopover) => Falsy(selected)

\* the selection after the n-th ArrowUp press in a row, counted from no
\* selection: last element, ..., first element, nothing, last element, ...
UpCycled(reg, n) ==
  LET k == (n - 1) % (Len(reg) + 1)
  IN  IF k = Len(reg) THEN Undefined ELSE reg[Len(reg) - k]

\* ArrowUp from the first registry element selects nothing (the lookup at
\* index -1 yields undefined), and ArrowUp from that undefined selects the last
\* registry element
UpFromFirst ==
  /\ (Pressed("ArrowUp") /\ last.opts # <<>> /\ ~Falsy(last.sel)
        /\ last.sel = last.opts[1]) =>
       selected = Undefined
  /\ (Pressed("ArrowUp") /\ last.opts # <<>> /\ last.sel = Undefined) =>
       selected = last.opts[Len(last.opts)]

\* C14 as stated: ArrowUp from the selection at index 0 selects nothing, a
\* further ArrowUp selects the last element, and over any registry that every
\* press finds the same the ArrowUp presses cycle with period length+1.
C14_AnyRegistry ==
  /\ UpFromFirst
  /\ run.kind = "up" => selected = UpCycled(run.reg, run.n)

\* C14, amended: ArrowUp from the selection at index 0 selects nothing and a
\* further ArrowUp selects the last element, over any registry; over a registry
\* of pairwise distinct, non-empty values that every press finds the same, the
\* ArrowUp presses cycle with period length+1.
C14_ArrowUpPeriod ==
  /\ UpFromFirst
  /\ (run.kind = "up" /\ Plain(run.reg)) => selected = UpCycled(run.reg, run.n)

\* a, b, c: the fourth press selected nothing, the fifth the last element again
C14_Witness ==
  /\ run.kind = "up" /\ run.n = 5
  /\ run.reg = <<"a", "b", "c">>
  /\ last.sel = Undefined /\ selected = "c"

\* the handler each handled key dispatches to
HandlerOfKey ==
  [ArrowUp |-> "onArrowUp", ArrowDown |-> "onArrowDown",
   Escape |-> "onEscape", Enter |-> "onItemSelect"]

\* C15: a key press of a key other than ArrowUp, ArrowDown, Escape and Enter
\* leaves the selection, the popover and the registry as they were, does not
\* suppress the browser default, enters no handler and invokes no onSelect;
\* each of the four handled keys suppresses the default and enters exactly its
\* one handler.
C15_KeyDispatch ==
  last.op = "keydown" =>
    /\ last.arg \notin DOMAIN HandlerOfKey =>
         /\ selected = last.sel /\ showPopover = last.show
         /\ options = last.opts
         /\ ~last.prevented
         /\ last.log = <<>> /\ last.calls = <<>>
    /\ last.arg \in DOMAIN HandlerOfKey =>
         /\ last.prevented
         /\ last.log = <<HandlerOfKey[last.arg]>>

\* another key while the popover shows and a row is selected
C15_Witness ==
  /\ Pressed("x") /\ last.show /\ last.sel = "b"
  /\ last.opts = <<"a", "b">>
  /\ selected = "b" /\ showPopover /\ options = <<"a", "b">>
  /\ ~last.prevented

\* C16 as stated: in every reachable state the selection is none or a value
\* that the registry holds at that moment.
C16_SelectionInRegistry ==
  mounted => (NoSelection(selected) \/ selected \in Range(options))

\* C16, amended: an ArrowUp or ArrowDown press leaves the selection undefined
\* or a value of the registry the press read; every other step keeps the
\* selection or clears it.  (The registry is emptied by the render the new
\* selection causes, and later renders may drop the selected row.)
C16_SelectionFromRegistry ==
  /\ (Pressed("ArrowUp") \/ Pressed("ArrowDown")) =>
       (selected = Undefined \/ selected \in Range(last.opts))
  /\ ~(Pressed("ArrowUp") \/ Pressed("ArrowDown")) =>
       (selected = last.sel \/ selected = Null)

\* ArrowUp while the selected row b is no longer rendered: the press took the
\* last element of the registry it read
C16_Witness ==
  /\ Pressed("ArrowUp") /\ last.sel = "b" /\ last.opts = <<"a">>
  /\ selected = "a"

\* C17 as stated: no step invokes onSelect with null or undefined; Enter
\* pressed while nothing is selected invokes no onSelect.
C17_OnSelectGetsValue ==
  /\ \A i \in 1..Len(last.calls) : ~NoSelection(last.calls[i].arg)
  /\ (Pressed("Enter") /\ NoSelection(last.sel)) => last.calls = <<>>

(***************************************************************************)
(* The owner supplies another onSelect: the widget with all its rows,      *)
(* re-rendered with either callback, under Enter presses and clicks.       *)
(***************************************************************************)
PropsInit == \E cb \in Callbacks : Mounted(cb, SubSeq(Alphabet, 1, MaxOpts))

PropsNext ==
  \/ MoveFocus("input")
  \/ \E key \in Keys : KeyDown(key)
  \/ \E value \in OptionValues : Click(value)
  \/ FlushEffects
  \/ \E cb \in Callbacks : ParentRerender(cb, rendered)

PropsSpec == PropsInit /\ [][PropsNext]_vars

\* C18 as stated: every onSelect call of an Enter press or an option click goes
\* to the onSelect of the latest render, never to one supplied earlier.
C18_LatestOnSelect ==
  \A i \in 1..Len(last.calls) : last.calls[i].cb = onSelectProp

\* C19: ArrowUp or ArrowDown pressed while the registry is empty (no option
\* row rendered, or the rows have not re-registered since the list container's
\* reset) leaves no option selected and the popover as it was.
C19_ArrowsOnEmptyRegistry ==
  ((Pressed("ArrowUp") \/ Pressed("ArrowDown")) /\ last.opts = <<>>) =>
    /\ NoSelection(selected)
    /\ showPopover = last.show

\* ArrowDown between the reset and the re-registration of the rows a, b, while
\* b was selected and the popover visible
C19_Witness ==
  /\ Pressed("ArrowDown") /\ last.opts = <<>>
  /\ rendered = <<"a", "b">>
  /\ last.sel = "b" /\ last.show
  /\ selected = Undefined /\ showPopover

====
